---- MODULE Spec2Model ----
(***************************************************************************)
(* A model of app-exposer's incluster package: the job status publisher    *)
(* (JSLPublisher), the inspection handlers of services.go and the label    *)
(* sweep ApplyAsyncLabels.  Go maps are functions whose DOMAIN is the set  *)
(* of keys present; a Go error is the string "nil" or a description.       *)
(***************************************************************************)
EXTENDS Integers, Sequences, FiniteSets, TLC

VARIABLES
    cluster,    \* the objects of the VICE namespace: id -> [labels, replicas, rv]
    sw,         \* the position and scratch state of ApplyAsyncLabels
    writes,     \* number of Pause/Resume writes issued so far
    resp,       \* what the last inspection request did and answered
    phase,      \* per analysis: where its lifecycle stands
    posted,     \* per analysis: the states handed to the publisher, in order
    lastPost,   \* the last postStatus call: its inputs and its result
    job,        \* the Job handed to the resource synthesis
    built,      \* the last synthesis call on the job: its function and its result
    lv          \* a string and what LabelValueString made of it

vars == <<cluster, sw, writes, resp, phase, posted, lastPost, job, built, lv>>

\* The variables of the synthesis, and those of the running service.
synthVars == <<job, built, lv>>
serviceVars == <<cluster, sw, writes, resp, phase, posted, lastPost>>

(***************************************************************************)
(* Bounds of the model.                                                    *)
(***************************************************************************)
MaxSweeps == 2      \* sweeps run one after the other
MaxWrites == 1      \* Pause/Resume writes racing with the sweeps
MaxFailures == 1    \* Apps / cluster failures injected into the sweeps of a run
MaxPosts == 3       \* statuses posted for one analysis
MaxSteps == 2       \* steps of a job
MaxInputs == 3      \* inputs of a job, over all its steps
MaxLen == 4         \* characters of a string given to LabelValueString

(***************************************************************************)
(* Go map helpers.                                                         *)
(***************************************************************************)
EmptyMap == [k \in {} |-> ""]
Has(m, k) == k \in DOMAIN m
Get(m, k) == IF k \in DOMAIN m THEN m[k] ELSE ""
Put(m, k, v) == [x \in (DOMAIN m) \cup {k} |-> IF x = k THEN v ELSE m[x]]
Delete(m, k) == [x \in (DOMAIN m) \ {k} |-> m[x]]

(***************************************************************************)
(* The status publisher.                                                   *)
(***************************************************************************)
TerminalStates == {"Succeeded", "Failed"}

\* The status codes a job-status-listener (or a proxy in front of it) answers.
StatusCodes == {199, 200, 204, 302, 399, 400, 404, 500, 503}

\* The outcomes of httpClient.Do: a transport error or a response.
DoOutcomes ==
    {[err |-> "transport error", code |-> 0]} \cup
    {[err |-> "nil", code |-> c] : c \in StatusCodes}

\* Whether url.Parse accepts the configured statusURL.
StatusURLs == {[valid |-> TRUE], [valid |-> FALSE]}

\* errors.Wrapf of github.com/pkg/errors: annotates err, and is nil for a nil err.
Wrapf(err, msg) == IF err = "nil" THEN "nil" ELSE msg

\* JSLPublisher.postStatus: the error it returns.
postStatus(statusURL, do) ==
    IF ~statusURL.valid
    THEN Wrapf("parse error", "error parsing URL")
    ELSE IF do.err # "nil"
    THEN Wrapf(do.err, "error returned posting status")
    ELSE IF do.code < 200 \/ do.code > 399
    THEN Wrapf(do.err, "error status code returned")
    ELSE "nil"

\* Whether a response came back, so that its status code means something.
Responded(statusURL, do) == statusURL.valid /\ do.err = "nil"

NoPost == [jobID |-> "", state |-> "", responded |-> FALSE, code |-> 0, err |-> "nil"]

\* One call of Fail, Success or Running for jobID.
Publish(jobID, state) ==
    \E statusURL \in StatusURLs, do \in DoOutcomes :
        /\ lastPost' = [jobID |-> jobID, state |-> state,
                        responded |-> Responded(statusURL, do),
                        code |-> IF Responded(statusURL, do) THEN do.code ELSE 0,
                        err |-> postStatus(statusURL, do)]
        /\ posted' = [posted EXCEPT ![jobID] = Append(@, state)]

Fail(jobID) == Publish(jobID, "Failed")
Success(jobID) == Publish(jobID, "Succeeded")
Running(jobID) == Publish(jobID, "Running")

(***************************************************************************)
(* The cluster: the labelled objects of the VICE namespace.                *)
(***************************************************************************)
ExternalIDs == {"e1", "e2"}

\* The object kinds the inspection handlers list, in doResourceListing's order.
Kinds == <<"deployments", "pods", "configmaps", "services", "ingresses">>

\* The objects of each kind, in the order the cluster lists them.
KindObjs ==
    [deployments |-> <<"dep-e1", "dep-e2">>,
     pods        |-> <<"pod-e1">>,
     configmaps  |-> <<"cm-e1">>,
     services    |-> <<"svc-e2">>,
     ingresses   |-> <<"ing-e1">>]

Range(s) == {s[i] : i \in 1..Len(s)}
ObjIds == UNION {Range(KindObjs[k]) : k \in DOMAIN KindObjs}

\* The analysis (external-id) and the user an object was launched for.
OwnerOf(o) ==
    IF o \in {"dep-e2", "svc-e2"}
    THEN [externalID |-> "e2", userID |-> "u2"]
    ELSE [externalID |-> "e1", userID |-> "u1"]

\* The deployment Launch names after the InvocationID.
DeploymentOf(externalID) == IF externalID = "e1" THEN "dep-e1" ELSE "dep-e2"

\* IngressName: the subdomain of an analysis, injective in (user-id, external-id).
IngressName(userID, externalID) == "a-" \o userID \o "-" \o externalID

\* What the Apps service knows.
UserIP(userID) == "ip-" \o userID
AnalysisID(externalID) == "an-" \o externalID

BaseLabels(o) ==
    ("app-type" :> "interactive") @@
    ("external-id" :> OwnerOf(o).externalID) @@
    ("user-id" :> OwnerOf(o).userID)

WithSubdomain(o) ==
    Put(BaseLabels(o), "subdomain",
        IngressName(OwnerOf(o).userID, OwnerOf(o).externalID))

FullLabels(o) ==
    Put(Put(WithSubdomain(o), "login-ip", UserIP(OwnerOf(o).userID)),
        "analysis-id", AnalysisID(OwnerOf(o).externalID))

\* The label sets an object can carry when the model starts: as Launch left it
\* (with or without the derived labels), as an older release left it, or not a
\* VICE object at all.
LabelShapes(o) ==
    LET common == {BaseLabels(o), FullLabels(o)}
    IN  IF o = "dep-e1"
        THEN common \cup {WithSubdomain(o),
                          Delete(BaseLabels(o), "user-id"),
                          Delete(BaseLabels(o), "external-id"),
                          Put(BaseLabels(o), "app-type", "batch")}
        ELSE IF o = "pod-e1" THEN {FullLabels(o)}
        ELSE common

NewObject(labels) == [labels |-> labels, replicas |-> 1, rv |-> 1]

\* A deployment after Pause: no replicas, and a newer resourceVersion.
PausedObject(labels) == [labels |-> labels, replicas |-> 0, rv |-> 2]

\* Analysis e1 is running and analysis e2 is paused.  The config map, service
\* and ingress were created by one release, so they carry the derived labels
\* together or not at all.
InitCluster ==
    \E d1 \in LabelShapes("dep-e1"), d2 \in LabelShapes("dep-e2"),
       p1 \in LabelShapes("pod-e1"), derived \in BOOLEAN :
        LET Rest(o) == IF derived THEN FullLabels(o) ELSE BaseLabels(o)
        IN  cluster = ("dep-e1" :> NewObject(d1)) @@ ("dep-e2" :> PausedObject(d2)) @@
                      ("pod-e1" :> NewObject(p1)) @@ ("cm-e1" :> NewObject(Rest("cm-e1"))) @@
                      ("svc-e2" :> NewObject(Rest("svc-e2"))) @@
                      ("ing-e1" :> NewObject(Rest("ing-e1")))

(***************************************************************************)
(* Label selectors and listing.                                            *)
(***************************************************************************)
\* maps.Copy(dst, src): every key of src is written into dst.
MapsCopy(dst, src) ==
    [k \in (DOMAIN dst) \cup (DOMAIN src) |-> IF k \in DOMAIN src THEN src[k] ELSE dst[k]]

\* getListSelector: the equality requirements of the selector.
getListSelector(customLabels) ==
    MapsCopy(("app-type" :> "interactive"), customLabels)

getListOptionsIgnoringMissing(customLabels, missingLabels) ==
    [eq |-> getListSelector(customLabels), missing |-> {}]

\* getListOptions: the labels that must be present with a value, and the labels
\* that must not exist.
getListOptions(customLabels, missingLabels) ==
    [eq |-> getListSelector(customLabels), missing |-> Range(missingLabels)]

\* Whether the cluster selects an object with these labels.
Matches(opts, labels) ==
    /\ \A k \in DOMAIN opts.eq : Has(labels, k) /\ labels[k] = opts.eq[k]
    /\ \A k \in opts.missing : ~Has(labels, k)

\* One item of a listing: the object as it stood when listed.
Item(o) == [id |-> o, labels |-> cluster[o].labels,
            replicas |-> cluster[o].replicas, rv |-> cluster[o].rv]

\* deploymentList, podList, configmapsList, serviceList, ingressList: the items
\* of one kind that the cluster returns for the list options.
resourceList(kind, customLabels, missingLabels) ==
    LET opts == getListOptions(customLabels, missingLabels)
        ids == SelectSeq(KindObjs[kind], LAMBDA o : Matches(opts, cluster[o].labels))
    IN  [i \in 1..Len(ids) |-> Item(ids[i])]

(***************************************************************************)
(* Writing to the cluster.                                                 *)
(***************************************************************************)
\* The cluster's Update: the stored object is replaced by the one sent, labels
\* and spec alike, unless the object sent names a resourceVersion that is no
\* longer the stored one (0 stands for none, an unconditional write).
UpdateConflicts(c, obj) == obj.rv # 0 /\ obj.rv # c[obj.id].rv

UpdateApplied(c, obj) ==
    LET old == c[obj.id]
        changed == old.labels # obj.labels \/ old.replicas # obj.replicas
    IN  [c EXCEPT ![obj.id] = [labels |-> obj.labels, replicas |-> obj.replicas,
                               rv |-> IF changed THEN old.rv + 1 ELSE old.rv]]

(***************************************************************************)
(* The label sweep.                                                        *)
(***************************************************************************)
\* populateSubdomain
populateSubdomain(existingLabels) ==
    IF ~Has(existingLabels, "subdomain")
       /\ Has(existingLabels, "external-id") /\ Has(existingLabels, "user-id")
    THEN Put(existingLabels, "subdomain",
             IngressName(existingLabels["user-id"], existingLabels["external-id"]))
    ELSE existingLabels

\* Whether populateLoginIP asks Apps for the user's IP address.
callsGetUserIP(existingLabels) ==
    ~Has(existingLabels, "login-ip") /\ Has(existingLabels, "user-id")

populateLoginIPReturningNil(existingLabels, ok) ==
    IF callsGetUserIP(existingLabels)
    THEN IF ok
         THEN [labels |-> Put(existingLabels, "login-ip",
                              UserIP(existingLabels["user-id"])),
               err |-> "nil"]
         ELSE [labels |-> EmptyMap, err |-> "GetUserIP failed"]
    ELSE [labels |-> existingLabels, err |-> "nil"]

\* populateLoginIP; ok is whether Apps' GetUserIP succeeds.
populateLoginIP(existingLabels, ok) ==
    IF callsGetUserIP(existingLabels)
    THEN IF ok
         THEN [labels |-> Put(existingLabels, "login-ip",
                              UserIP(existingLabels["user-id"])),
               err |-> "nil"]
         ELSE [labels |-> existingLabels, err |-> "GetUserIP failed"]
    ELSE [labels |-> existingLabels, err |-> "nil"]

\* Whether populateAnalysisID asks Apps for the analysis-id.
callsGetAnalysisID(existingLabels) ==
    ~Has(existingLabels, "analysis-id") /\ Has(existingLabels, "external-id")

populateAnalysisIDReturningErr(existingLabels, ok) ==
    IF Has(existingLabels, "analysis-id")
    THEN [labels |-> existingLabels, err |-> "nil"]
    ELSE IF ~Has(existingLabels, "external-id")
    THEN [labels |-> existingLabels, err |-> "missing external-id key"]
    ELSE IF ok
    THEN [labels |-> Put(existingLabels, "analysis-id",
                         AnalysisID(existingLabels["external-id"])),
          err |-> "nil"]
    ELSE [labels |-> existingLabels, err |-> "GetAnalysisIDByExternalID failed"]

\* populateAnalysisID; ok is whether Apps' GetAnalysisIDByExternalID succeeds.
\* A failed lookup is logged and no error is returned.
populateAnalysisID(existingLabels, ok) ==
    IF Has(existingLabels, "analysis-id")
    THEN [labels |-> existingLabels, err |-> "nil"]
    ELSE IF ~Has(existingLabels, "external-id")
    THEN [labels |-> existingLabels, err |-> "missing external-id key"]
    ELSE IF ok
    THEN [labels |-> Put(existingLabels, "analysis-id",
                         AnalysisID(existingLabels["external-id"])),
          err |-> "nil"]
    ELSE [labels |-> existingLabels, err |-> "nil"]

updateRequestUnversioned(item, existingLabels) ==
    [id |-> item.id, labels |-> existingLabels, replicas |-> item.replicas, rv |-> 0]

\* The object the sweep sends to Update: the listed item, whole, with its labels
\* replaced (deployment.SetLabels) and the resourceVersion it was listed at.
updateRequest(item, existingLabels) ==
    [id |-> item.id, labels |-> existingLabels, replicas |-> item.replicas,
     rv |-> item.rv]

\* The kinds ApplyAsyncLabels relabels, in its order.
SweepKinds == <<"deployments", "configmaps", "services", "ingresses">>

\* The labels a relabel function lists without.
SweepMissingLabels == <<"subdomain">>

AppendErr(errors, err) == IF err = "nil" THEN errors ELSE Append(errors, err)

IdleSweep ==
    [pc |-> "idle", kind |-> 1, items |-> <<>>, errors |-> <<>>, status |-> 0,
     run |-> 0,
     injected |-> 0,   \* failures injected so far, over all sweeps
     \* history of the sweep, kept for the properties below
     pre |-> cluster, prevClean |-> FALSE, failed |-> <<>>, listed |-> {},
     attempted |-> {}, idFailed |-> {}, kindsTried |-> {}, updates |-> 0,
     stale |-> FALSE]

\* ApplyAsyncLabelsHandler is called: ApplyAsyncLabels starts with no errors.
ApplyAsyncLabelsStart ==
    /\ sw.pc \in {"idle", "done"}
    /\ sw.run < MaxSweeps
    /\ sw' = [IdleSweep EXCEPT !.pc = "list", !.run = sw.run + 1,
                               !.injected = sw.injected,
                               !.prevClean = (sw.pc = "done" /\ sw.failed = <<>>)]
    /\ UNCHANGED <<synthVars, cluster, writes, resp, phase, posted, lastPost>>

AfterKindAbortingOnError(s) ==
    IF s.kind < Len(SweepKinds) /\ Len(s.errors) = 0
    THEN [s EXCEPT !.pc = "list", !.kind = s.kind + 1, !.items = <<>>]
    ELSE [s EXCEPT !.pc = "done", !.items = <<>>,
                   !.status = IF Len(s.errors) > 0 THEN 500 ELSE 200]

\* What follows the return of one relabel function: the next one, whatever the
\* errors so far, and after the last one the handler's answer.
AfterKind(s) ==
    IF s.kind < Len(SweepKinds)
    THEN [s EXCEPT !.pc = "list", !.kind = s.kind + 1, !.items = <<>>]
    ELSE [s EXCEPT !.pc = "done", !.items = <<>>,
                   !.status = IF Len(s.errors) > 0 THEN 500 ELSE 200]

\* The listing call of a relabel function; a failed listing returns at once.
relabelList(kind) ==
    /\ sw.pc = "list"
    /\ SweepKinds[sw.kind] = kind
    /\ \E ok \in BOOLEAN :
        /\ ~ok => sw.injected < MaxFailures
        /\ LET items == resourceList(kind, EmptyMap, SweepMissingLabels)
               tried == [sw EXCEPT !.kindsTried = @ \cup {kind}]
           IN  sw' = IF ok
                     THEN [tried EXCEPT !.pc = "items", !.items = items,
                                        !.listed = @ \cup {items[i].id : i \in 1..Len(items)}]
                     ELSE AfterKind([tried EXCEPT !.errors = Append(@, "list failed"),
                                                  !.failed = Append(@, "list failed"),
                                                  !.injected = @ + 1])
    /\ UNCHANGED <<synthVars, cluster, writes, resp, phase, posted, lastPost>>

Count(b) == IF b THEN 1 ELSE 0

\* One turn of a relabel function's loop: populate the labels of the next item
\* and send the item to Update.
relabelItem(kind) ==
    /\ sw.pc = "items"
    /\ SweepKinds[sw.kind] = kind
    /\ Len(sw.items) > 0
    /\ \E ipOK \in BOOLEAN, idOK \in BOOLEAN, updOK \in BOOLEAN :
        LET item == Head(sw.items)
            l1 == populateSubdomain(item.labels)
            r2 == populateLoginIP(l1, ipOK)
            r3 == populateAnalysisID(r2.labels, idOK)
            ipFailed == callsGetUserIP(l1) /\ ~ipOK
            idFailed == callsGetAnalysisID(r2.labels) /\ ~idOK
            req == updateRequest(item, r3.labels)
            conflict == UpdateConflicts(cluster, req)
            updErr == IF ~updOK THEN "Update failed"
                      ELSE IF conflict THEN "Update conflict" ELSE "nil"
            errs == AppendErr(AppendErr(AppendErr(sw.errors, r2.err), r3.err), updErr)
            fails == AppendErr(AppendErr(AppendErr(sw.failed,
                        IF ipFailed THEN "GetUserIP failed" ELSE "nil"),
                        IF idFailed THEN "GetAnalysisIDByExternalID failed" ELSE r3.err),
                        updErr)
            injected == Count(ipFailed) + Count(idFailed) + Count(~updOK)
        IN  /\ ~callsGetUserIP(l1) => ipOK
            /\ ~callsGetAnalysisID(r2.labels) => idOK
            /\ sw.injected + injected <= MaxFailures
            /\ cluster' = IF updErr = "nil" THEN UpdateApplied(cluster, req) ELSE cluster
            /\ sw' = [sw EXCEPT !.items = Tail(@), !.errors = errs, !.failed = fails,
                                !.injected = @ + injected,
                                !.attempted = @ \cup {item.id},
                                !.idFailed = IF idFailed THEN @ \cup {item.id} ELSE @,
                                !.updates = @ + 1,
                                !.stale = @ \/ (item.rv # cluster[item.id].rv)]
    /\ UNCHANGED <<synthVars, writes, resp, phase, posted, lastPost>>

\* The loop of a relabel function is over: it returns its errors.
relabelReturn(kind) ==
    /\ sw.pc = "items"
    /\ SweepKinds[sw.kind] = kind
    /\ Len(sw.items) = 0
    /\ sw' = AfterKind(sw)
    /\ UNCHANGED <<synthVars, cluster, writes, resp, phase, posted, lastPost>>

relabelDeployments ==
    relabelList("deployments") \/ relabelItem("deployments") \/ relabelReturn("deployments")

relabelConfigMaps ==
    relabelList("configmaps") \/ relabelItem("configmaps") \/ relabelReturn("configmaps")

relabelServices ==
    relabelList("services") \/ relabelItem("services") \/ relabelReturn("services")

relabelIngresses ==
    relabelList("ingresses") \/ relabelItem("ingresses") \/ relabelReturn("ingresses")

\* ApplyAsyncLabels: the four relabel functions, one after the other.
ApplyAsyncLabels ==
    relabelDeployments \/ relabelConfigMaps \/ relabelServices \/ relabelIngresses

(***************************************************************************)
(* The inspection handlers.                                                *)
(***************************************************************************)
\* The values one query key can carry (url.Values keeps every value of a key).
\* The user names are alice and bob, known to Apps under the configured suffix
\* "@s", and ghost, unknown to Apps.
QueryChoices ==
    [app_type    |-> {<<>>, <<"interactive">>, <<"batch">>},
     external_id |-> {<<>>, <<"e1">>, <<"e2", "e1">>},
     user_id     |-> {<<>>, <<"u2">>},
     user        |-> {<<>>, <<"alice">>, <<"bob@s">>, <<"ghost">>}]

\* The query of a request: the keys that were given, each with its values.
QueryOf(at, ei, ui, us) ==
    LET all == ("app-type" :> at) @@ ("external-id" :> ei) @@
               ("user-id" :> ui) @@ ("user" :> us)
    IN  [k \in {x \in DOMAIN all : Len(all[x]) > 0} |-> all[k]]

Queries ==
    {QueryOf(at, ei, ui, us) :
        at \in QueryChoices.app_type, ei \in QueryChoices.external_id,
        ui \in QueryChoices.user_id, us \in QueryChoices.user}

Hosts == {"a-u1-e1", "a-u2-e2", "a-u9-e9"}
DescribeUsers == {"", "alice", "bob@s", "ghost"}

\* c.QueryParam(name): the first value of the key, "" when the key is absent.
QueryParam(values, name) == IF Has(values, name) THEN values[name][1] ELSE ""

\* filterMap: the first value of every key of the query.
filterMap(values) == [k \in DOMAIN values |-> values[k][1]]

\* fixUsername (common.FixUsername): the suffix is appended to a name lacking it.
fixUsername(username) ==
    CASE username = "alice" -> "alice@s"
      [] username = "bob" -> "bob@s"
      [] username = "ghost" -> "ghost@s"
      [] OTHER -> username

\* The users table behind Apps' GetUserID; "" stands for sql.ErrNoRows.
AppsUserID(username) ==
    CASE username = "alice@s" -> "u1"
      [] username = "bob@s" -> "u2"
      [] OTHER -> ""

\* MetaInfo, as deploymentInfo, podInfo, configMapInfo, serviceInfo and
\* ingressInfo fill it from an item's labels (a missing label reads as "").
metaInfo(item) ==
    [name |-> item.id,
     externalID |-> Get(item.labels, "external-id"),
     userID |-> Get(item.labels, "user-id")]

\* getFilteredDeployments, getFilteredPods, getFilteredConfigMaps,
\* getFilteredServices, getFilteredIngresses: the infos of one kind's listing.
getFiltered(kind, filter) ==
    LET items == resourceList(kind, filter, <<>>)
    IN  [i \in 1..Len(items) |-> metaInfo(items[i])]

\* doResourceListing: the five listings in order; failAt is the list call that
\* fails (0 for none), after which no further list call is made.
doResourceListing(filter, failAt) ==
    [err |-> failAt # 0,
     listOpts |-> [i \in 1..(IF failAt = 0 THEN Len(Kinds) ELSE failAt) |->
                        getListOptions(filter, <<>>)],
     listing |-> IF failAt # 0 THEN EmptyMap
                 ELSE [k \in Range(Kinds) |-> getFiltered(k, filter)]]

NoResp ==
    [handler |-> "none", status |-> 0, listing |-> EmptyMap, appsCalls |-> <<>>,
     permsCalls |-> <<>>, listOpts |-> <<>>, user |-> "", query |-> EmptyMap,
     body |-> "", failed |-> ""]

\* No request is being handled.  A handler runs from the arrival of its request
\* to its answer; the handlers keep no state of their own, so the model follows
\* one request at a time.
Idle == resp = NoResp

\* The answer of a handler.  body is the message of an error answer, and "" when
\* the answer is the JSON of the listing; failed names the call whose error ended
\* the request, and is "" when no call failed.
Answer(handler, status, listing, appsCalls, permsCalls, listOpts, user, query, body, failed) ==
    /\ resp' = [handler |-> handler, status |-> status, listing |-> listing,
                appsCalls |-> appsCalls, permsCalls |-> permsCalls,
                listOpts |-> listOpts, user |-> user, query |-> query,
                body |-> body, failed |-> failed]
    /\ UNCHANGED <<synthVars, cluster, sw, writes, phase, posted, lastPost>>

\* The answer has gone out to the client; the next request can be followed.
ResponseSent ==
    /\ resp # NoResp
    /\ resp' = NoResp
    /\ UNCHANGED <<synthVars, cluster, sw, writes, phase, posted, lastPost>>

\* The messages of the error answers.  An error of Apps or of the cluster that is
\* wrapped by echo.NewHTTPError is answered with its text (err.Error()); an error
\* a handler returns as it is reaches echo's default handler, which answers 500
\* with its own text.
UserNotSet == "user query parameter must be set"
UserNotFound(user) == "user " \o user \o " not found"
CannotAccess(user, analysisID) ==
    "user " \o user \o " cannot access analysis " \o analysisID
AppsError == "apps: request failed"
ListError == "cluster: list failed"
InternalServerError == "Internal Server Error"

\* FilterableDeploymentsHandler, FilterablePodsHandler, FilterableConfigMapsHandler,
\* FilterableServicesHandler, FilterableIngressesHandler: one kind's listing for
\* the query as it stands.
FilterableKindHandler(handler, kind) ==
    /\ Idle
    /\ \E query \in Queries, ok \in BOOLEAN :
           LET filter == filterMap(query)
               opts == <<getListOptions(filter, <<>>)>>
           IN  IF ok
               THEN Answer(handler, 200, (kind :> getFiltered(kind, filter)),
                           <<>>, <<>>, opts, QueryParam(query, "user"), query, "", "")
               ELSE Answer(handler, 500, EmptyMap, <<>>, <<>>, opts,
                           QueryParam(query, "user"), query, ListError, "list")

FilterableDeploymentsHandler ==
    FilterableKindHandler("FilterableDeploymentsHandler", "deployments")

FilterablePodsHandler == FilterableKindHandler("FilterablePodsHandler", "pods")

FilterableConfigMapsHandler ==
    FilterableKindHandler("FilterableConfigMapsHandler", "configmaps")

FilterableServicesHandler ==
    FilterableKindHandler("FilterableServicesHandler", "services")

FilterableIngressesHandler ==
    FilterableKindHandler("FilterableIngressesHandler", "ingresses")

\* The outcomes of a lookup in Apps and of a question to Permissions.
LookupOutcomes == {"ok", "error"}
Verdicts == {"allow", "deny", "error"}
FailAts == 0..Len(Kinds)

userLookupIgnoringNoRows(user, fixedUser, db, errBody) ==
    IF user = ""
    THEN [status |-> 400, appsCalls |-> <<>>, body |-> UserNotSet, failed |-> ""]
    ELSE IF db = "error"
    THEN [status |-> 500, appsCalls |-> <<"GetUserID">>, body |-> errBody,
          failed |-> "GetUserID"]
    ELSE [status |-> 200, appsCalls |-> <<"GetUserID">>, body |-> "", failed |-> ""]

\* The first steps of FilterableResourcesHandler and DescribeAnalysisHandler: the
\* user parameter must be set, and Apps must know the suffix-fixed user name.
\* Status 200 stands for going on with the request; errBody is the body of the
\* answer to an error of Apps other than sql.ErrNoRows.
userLookup(user, fixedUser, db, errBody) ==
    IF user = ""
    THEN [status |-> 400, appsCalls |-> <<>>, body |-> UserNotSet, failed |-> ""]
    ELSE IF db = "error"
    THEN [status |-> 500, appsCalls |-> <<"GetUserID">>, body |-> errBody,
          failed |-> "GetUserID"]
    ELSE IF AppsUserID(fixedUser) = ""
    THEN [status |-> 404, appsCalls |-> <<"GetUserID">>,
          body |-> UserNotFound(fixedUser), failed |-> "sql.ErrNoRows"]
    ELSE [status |-> 200, appsCalls |-> <<"GetUserID">>, body |-> "", failed |-> ""]

resourcesFilterKeepingQuery(query, userID) ==
    MapsCopy(("user-id" :> userID), Delete(filterMap(query), "user"))

\* The filter of FilterableResourcesHandler: the query's first values without
\* the key user, and with user-id set to the id Apps returned.
resourcesFilter(query, userID) ==
    Put(Delete(filterMap(query), "user"), "user-id", userID)

\* FilterableResourcesHandler
FilterableResourcesHandler ==
    /\ Idle
    /\ \E query \in Queries, db \in LookupOutcomes, failAt \in FailAts :
           LET h == "FilterableResourcesHandler"
               given == QueryParam(query, "user")
               user == fixUsername(given)
               known == userLookup(given, user, db, AppsError)
               userID == AppsUserID(user)
               filter == resourcesFilter(query, userID)
               res == doResourceListing(filter, failAt)
           IN  IF known.status # 200
               THEN Answer(h, known.status, EmptyMap, known.appsCalls, <<>>, <<>>,
                           given, query, known.body, known.failed)
               ELSE IF res.err
               THEN Answer(h, 500, EmptyMap, known.appsCalls, <<>>, res.listOpts, given,
                           query, ListError, "list")
               ELSE Answer(h, 200, res.listing, known.appsCalls, <<>>, res.listOpts,
                           given, query, "", "")

AdminFilterableResourcesHandlerAskingApps ==
    /\ Idle
    /\ \E query \in Queries, failAt \in FailAts :
           LET h == "AdminFilterableResourcesHandler"
               res == doResourceListing(filterMap(query), failAt)
           IN  Answer(h, IF res.err THEN 500 ELSE 200, res.listing, <<"GetUserID">>,
                      <<>>, res.listOpts, QueryParam(query, "user"), query,
                      IF res.err THEN ListError ELSE "",
                      IF res.err THEN "list" ELSE "")

\* AdminFilterableResourcesHandler
AdminFilterableResourcesHandler ==
    /\ Idle
    /\ \E query \in Queries, failAt \in FailAts :
           LET h == "AdminFilterableResourcesHandler"
               res == doResourceListing(filterMap(query), failAt)
           IN  Answer(h, IF res.err THEN 500 ELSE 200, res.listing, <<>>, <<>>,
                      res.listOpts, QueryParam(query, "user"), query,
                      IF res.err THEN ListError ELSE "",
                      IF res.err THEN "list" ELSE "")

\* AdminDescribeAnalysisHandler
AdminDescribeAnalysisHandler ==
    /\ Idle
    /\ \E host \in Hosts, failAt \in FailAts :
           LET h == "AdminDescribeAnalysisHandler"
               res == doResourceListing(("subdomain" :> host), failAt)
           IN  Answer(h, IF res.err THEN 500 ELSE 200, res.listing, <<>>, <<>>,
                      res.listOpts, "", EmptyMap,
                      IF res.err THEN ListError ELSE "",
                      IF res.err THEN "list" ELSE "")

describeGateAskingTwice(deployments, user, lookup, verdict) ==
    IF Len(deployments) = 0
    THEN [status |-> 200, appsCalls |-> <<>>, permsCalls |-> <<>>, body |-> "",
          failed |-> ""]
    ELSE LET externalID == deployments[1].externalID
             analysisID == AnalysisID(externalID)
             asked == <<[user |-> user, analysisID |-> analysisID, verdict |-> verdict],
                        [user |-> fixUsername(user), analysisID |-> analysisID,
                         verdict |-> verdict]>>
         IN  IF lookup = "error" \/ externalID \notin ExternalIDs
             THEN [status |-> 500, appsCalls |-> <<"GetAnalysisIDByExternalID">>,
                   permsCalls |-> <<>>, body |-> InternalServerError,
                   failed |-> "GetAnalysisIDByExternalID"]
             ELSE [status |-> CASE verdict = "allow" -> 200
                                [] verdict = "deny" -> 403
                                [] OTHER -> 500,
                   appsCalls |-> <<"GetAnalysisIDByExternalID">>,
                   permsCalls |-> asked,
                   body |-> CASE verdict = "allow" -> ""
                              [] verdict = "deny" -> CannotAccess(user, analysisID)
                              [] OTHER -> InternalServerError,
                   failed |-> IF verdict = "error" THEN "IsAllowed" ELSE ""]

describeGateAskingAlways(deployments, user, lookup, verdict) ==
    LET externalID == IF Len(deployments) = 0 THEN "e1" ELSE deployments[1].externalID
        analysisID == AnalysisID(externalID)
        asked == [user |-> user, analysisID |-> analysisID, verdict |-> verdict]
    IN  IF lookup = "error" \/ externalID \notin ExternalIDs
        THEN [status |-> 500, appsCalls |-> <<"GetAnalysisIDByExternalID">>,
              permsCalls |-> <<>>, body |-> InternalServerError,
              failed |-> "GetAnalysisIDByExternalID"]
        ELSE [status |-> CASE verdict = "allow" -> 200
                           [] verdict = "deny" -> 403
                           [] OTHER -> 500,
              appsCalls |-> <<"GetAnalysisIDByExternalID">>,
              permsCalls |-> <<asked>>,
              body |-> CASE verdict = "allow" -> ""
                         [] verdict = "deny" -> CannotAccess(user, analysisID)
                         [] OTHER -> InternalServerError,
              failed |-> IF verdict = "error" THEN "IsAllowed" ELSE ""]

\* The permission check of DescribeAnalysisHandler, made after the listing: the
\* first deployment's external-id is resolved by Apps and Permissions is asked
\* about the user and that analysis.  Apps knows no analysis for an external-id
\* outside ExternalIDs.
describeGate(deployments, user, lookup, verdict) ==
    IF Len(deployments) = 0
    THEN [status |-> 200, appsCalls |-> <<>>, permsCalls |-> <<>>, body |-> "",
          failed |-> ""]
    ELSE LET externalID == deployments[1].externalID
             analysisID == AnalysisID(externalID)
             asked == [user |-> user, analysisID |-> analysisID, verdict |-> verdict]
         IN  IF lookup = "error" \/ externalID \notin ExternalIDs
             THEN [status |-> 500, appsCalls |-> <<"GetAnalysisIDByExternalID">>,
                   permsCalls |-> <<>>, body |-> InternalServerError,
                   failed |-> "GetAnalysisIDByExternalID"]
             ELSE [status |-> CASE verdict = "allow" -> 200
                                [] verdict = "deny" -> 403
                                [] OTHER -> 500,
                   appsCalls |-> <<"GetAnalysisIDByExternalID">>,
                   permsCalls |-> <<asked>>,
                   body |-> CASE verdict = "allow" -> ""
                              [] verdict = "deny" -> CannotAccess(user, analysisID)
                              [] OTHER -> InternalServerError,
                   failed |-> IF verdict = "error" THEN "IsAllowed" ELSE ""]

\* DescribeAnalysisHandler
DescribeAnalysisHandler ==
    /\ Idle
    /\ \E host \in Hosts, user \in DescribeUsers, db \in LookupOutcomes,
          failAt \in FailAts, lookup \in LookupOutcomes, verdict \in Verdicts :
           LET h == "DescribeAnalysisHandler"
               fixedUser == fixUsername(user)
               known == userLookup(user, fixedUser, db, InternalServerError)
               res == doResourceListing(("subdomain" :> host), failAt)
               gate == describeGate(res.listing["deployments"], user, lookup, verdict)
           IN  IF known.status # 200
               THEN Answer(h, known.status, EmptyMap, known.appsCalls, <<>>, <<>>,
                           user, EmptyMap, known.body, known.failed)
               ELSE IF res.err
               THEN Answer(h, 500, EmptyMap, known.appsCalls, <<>>, res.listOpts, user,
                           EmptyMap, InternalServerError, "list")
               ELSE Answer(h, gate.status,
                           IF gate.status = 200 THEN res.listing ELSE EmptyMap,
                           known.appsCalls \o gate.appsCalls, gate.permsCalls,
                           res.listOpts, user, EmptyMap, gate.body, gate.failed)

(***************************************************************************)
(* The lifecycle of an analysis, which decides when the publisher is       *)
(* called: Absent -> Launching -> Running <-> Paused -> Terminated.        *)
(***************************************************************************)
\* Launch(job): the object graph is applied; no status is published yet.
Launch(j) ==
    /\ phase[j] = "Absent"
    /\ phase' = [phase EXCEPT ![j] = "Launching"]
    /\ UNCHANGED <<synthVars, cluster, sw, writes, resp, posted, lastPost>>

\* The first pod of the workload reports Ready: Running is published.
PodReady(j) ==
    /\ phase[j] = "Launching"
    /\ phase' = [phase EXCEPT ![j] = "Running"]
    /\ Running(j)
    /\ UNCHANGED <<synthVars, cluster, sw, writes, resp>>

\* After the first Ready, Running may be published again.
ReportRunning(j) ==
    /\ phase[j] = "Running"
    /\ Len(posted[j]) < MaxPosts
    /\ Running(j)
    /\ UNCHANGED <<synthVars, cluster, sw, writes, resp, phase>>

Scale(c, o, n) == [c EXCEPT ![o].replicas = n, ![o].rv = @ + 1]

\* Pause(externalID): the workload's replica count is set to 0.
Pause(j) ==
    /\ phase[j] = "Running"
    /\ writes < MaxWrites
    /\ writes' = writes + 1
    /\ phase' = [phase EXCEPT ![j] = "Paused"]
    /\ cluster' = Scale(cluster, DeploymentOf(j), 0)
    /\ UNCHANGED <<synthVars, sw, resp, posted, lastPost>>

\* Resume(externalID): the workload's replica count is set to 1.
Resume(j) ==
    /\ phase[j] = "Paused"
    /\ writes < MaxWrites
    /\ writes' = writes + 1
    /\ phase' = [phase EXCEPT ![j] = "Running"]
    /\ cluster' = Scale(cluster, DeploymentOf(j), 1)
    /\ UNCHANGED <<synthVars, sw, resp, posted, lastPost>>

TerminatedPhaseKept(p, j) == p

\* The phase after Terminate.
TerminatedPhase(p, j) == [p EXCEPT ![j] = "Terminated"]

\* Terminate(externalID): one terminal status, Succeeded when the user ended the
\* analysis and Failed on a pod or init-container failure.
Terminate(j) ==
    /\ phase[j] \in {"Launching", "Running", "Paused"}
    /\ phase' = TerminatedPhase(phase, j)
    /\ \/ Success(j)
       \/ Fail(j)
    /\ UNCHANGED <<synthVars, cluster, sw, writes, resp>>

(***************************************************************************)
(* Resource synthesis: the Job and the volume functions of volumes.go.     *)
(* A remote path is held as the sequence of its elements ("" as last       *)
(* element stands for a trailing slash, <<>> for the empty path).          *)
(***************************************************************************)
IRODSZone == "iplant"

RECURSIVE PathString(_)
\* The path as the string the job carries: "/" before every element.
PathString(path) ==
    IF path = <<>> THEN ""
    ELSE PathString(SubSeq(path, 1, Len(path) - 1)) \o
         (IF Len(path) > 1 /\ path[Len(path)] = "" THEN "/"
          ELSE "/" \o path[Len(path)])

\* The inputs a step can carry: their type as the job spells it, and the remote
\* path StepInput.IRODSPath() returns (a collection's path ends with a slash).
StepInputs ==
    {[Type |-> "fileinput",         Path |-> <<"iplant", "home", "alice", "reads.fq">>],
     [Type |-> "MultiFileSelector", Path |-> <<"iplant", "home", "bob", "reads.fq">>],
     [Type |-> "FolderInput",       Path |-> <<"iplant", "home", "alice", "genome", "">>],
     [Type |-> "text",              Path |-> <<"iplant", "home", "alice", "notes">>],
     [Type |-> "text",              Path |-> <<>>],
     [Type |-> "fileinput",         Path |-> <<>>]}

\* The Component containers of a job's first step, and the one of later steps.
FirstContainers == {[UID |-> 1000, GID |-> 1000], [UID |-> 1000, GID |-> 100]}
LaterContainer == [UID |-> 0, GID |-> 0]

\* Who submitted the job, under which InvocationID.
Submissions ==
    {[InvocationID |-> "e1", Submitter |-> "alice", UserID |-> "u1",
      UserHome |-> "/iplant/home/alice", OutputDirectory |-> "/iplant/home/alice/out"],
     [InvocationID |-> "e2", Submitter |-> "bob", UserID |-> "u2",
      UserHome |-> "", OutputDirectory |-> "/iplant/home/bob/out"]}

\* The steps that carry the inputs flat, cut after cuts[1], cuts[2], ... inputs.
StepsOf(flat, cuts, first) ==
    [s \in 1..(Len(cuts) + 1) |->
        LET lo == IF s = 1 THEN 0 ELSE cuts[s - 1]
            hi == IF s = Len(cuts) + 1 THEN Len(flat) ELSE cuts[s]
        IN  [Container |-> IF s = 1 THEN first ELSE LaterContainer,
             Inputs |-> SubSeq(flat, lo + 1, hi)]]

Cuts(n) ==
    UNION {{c \in [1..k -> 0..n] : \A i \in 1..(k - 1) : c[i] <= c[i + 1]} :
              k \in 0..(MaxSteps - 1)}

\* A job: the submission, and the inputs flat laid out in steps.
JobOf(sub, first, flat, cuts) ==
    [InvocationID |-> sub.InvocationID, Submitter |-> sub.Submitter,
     UserID |-> sub.UserID, UserHome |-> sub.UserHome,
     OutputDirectory |-> sub.OutputDirectory,
     Steps |-> StepsOf(flat, cuts, first)]

NoJob ==
    [InvocationID |-> "", Submitter |-> "", UserID |-> "", UserHome |-> "",
     OutputDirectory |-> "", Steps |-> <<>>]

\* StepInput.IRODSPath()
IRODSPath(stepInput) == PathString(stepInput.Path)

\* Job.OutputDirectory()
OutputDirectory(j) == j.OutputDirectory

\* strings.ToLower, on the type names of the model.
ToLower(s) ==
    CASE s = "MultiFileSelector" -> "multifileselector"
      [] s = "FolderInput" -> "folderinput"
      [] OTHER -> s

RECURSIVE Clean(_)
\* The path without its trailing slashes.
Clean(path) ==
    IF path # <<>> /\ path[Len(path)] = "" THEN Clean(SubSeq(path, 1, Len(path) - 1))
    ELSE path

\* filepath.Base: the last element of the path, trailing slashes removed; "."
\* for the empty path and "/" for a path of slashes only.
filepathBase(path) ==
    IF path = <<>> THEN "."
    ELSE IF Clean(path) = <<>> THEN "/"
    ELSE Clean(path)[Len(Clean(path))]

\* constants.CSIDriverInputVolumeMountPath, CSIDriverOutputVolumeMountPath
CSIDriverInputVolumeMountPath == "/input"
CSIDriverOutputVolumeMountPath == "/output"

\* The resource type of an input: "file", "dir", or "" for an unknown type.
resourceTypeOf(stepInput) ==
    CASE ToLower(stepInput.Type) = "fileinput" -> "file"
      [] ToLower(stepInput.Type) = "multifileselector" -> "file"
      [] ToLower(stepInput.Type) = "folderinput" -> "dir"
      [] OTHER -> ""

UnknownInputType(type) == "unknown step input type - " \o type

MountCollision(irodsPath, mountPath, existingIRODSPath) ==
    "tried to mount an input file " \o irodsPath \o " at " \o mountPath \o
    " already used by - " \o existingIRODSPath

\* The mount path of an input: the input mount root and the path's base name.
inputMountPath(stepInput) ==
    CSIDriverInputVolumeMountPath \o "/" \o filepathBase(stepInput.Path)

\* One turn of the inner loop of getInputPathMappings; once an error is
\* returned, nothing more is done.
visitInput(acc, stepInput) ==
    LET irodsPath == IRODSPath(stepInput)
        resourceType == resourceTypeOf(stepInput)
        mountPath == inputMountPath(stepInput)
    IN  IF acc.err # "nil" THEN acc
        ELSE IF irodsPath = "" THEN acc
        ELSE IF resourceType = ""
        THEN [acc EXCEPT !.mappings = <<>>, !.err = UnknownInputType(stepInput.Type)]
        ELSE IF Has(acc.mappingMap, mountPath)
        THEN [acc EXCEPT !.mappings = <<>>,
                         !.err = MountCollision(irodsPath, mountPath,
                                                acc.mappingMap[mountPath])]
        ELSE [mappings |-> Append(acc.mappings,
                                  [IRODSPath |-> irodsPath, MappingPath |-> mountPath,
                                   ResourceType |-> resourceType, ReadOnly |-> TRUE,
                                   CreateDir |-> FALSE, IgnoreNotExistError |-> TRUE]),
              mappingMap |-> Put(acc.mappingMap, mountPath, irodsPath),
              err |-> "nil"]

RECURSIVE visitInputs(_, _, _)
\* The inner loop, from the i-th input of a step on.
visitInputs(acc, inputs, i) ==
    IF i > Len(inputs) THEN acc
    ELSE visitInputs(visitInput(acc, inputs[i]), inputs, i + 1)

RECURSIVE visitStepsFreshMap(_, _, _)
visitStepsFreshMap(acc, steps, s) ==
    IF s > Len(steps) THEN acc
    ELSE visitStepsFreshMap(
             visitInputs([acc EXCEPT !.mappingMap = EmptyMap], steps[s].Inputs, 1),
             steps, s + 1)

RECURSIVE visitSteps(_, _, _)
\* The outer loop, from the s-th step on; mappingMap lives across the steps.
visitSteps(acc, steps, s) ==
    IF s > Len(steps) THEN acc
    ELSE visitSteps(visitInputs(acc, steps[s].Inputs, 1), steps, s + 1)

\* getInputPathMappings: the mappings and the error it returns.
getInputPathMappings(j) ==
    LET res == visitSteps([mappings |-> <<>>, mappingMap |-> EmptyMap, err |-> "nil"],
                          j.Steps, 1)
    IN  [mappings |-> res.mappings, err |-> res.err]

\* getOutputPathMapping
getOutputPathMapping(j) ==
    [IRODSPath |-> OutputDirectory(j), MappingPath |-> CSIDriverOutputVolumeMountPath,
     ResourceType |-> "dir", ReadOnly |-> FALSE, CreateDir |-> TRUE,
     IgnoreNotExistError |-> TRUE]

\* getHomePathMapping
getHomePathMapping(j) ==
    [IRODSPath |-> j.UserHome, MappingPath |-> j.UserHome,
     ResourceType |-> "dir", ReadOnly |-> FALSE, CreateDir |-> FALSE,
     IgnoreNotExistError |-> FALSE]

\* getSharedPathMapping
getSharedPathMapping ==
    LET sharedHomeFullPath == "/" \o IRODSZone \o "/home/shared"
    IN  [IRODSPath |-> sharedHomeFullPath, MappingPath |-> sharedHomeFullPath,
         ResourceType |-> "dir", ReadOnly |-> FALSE, CreateDir |-> FALSE,
         IgnoreNotExistError |-> TRUE]

\* json.Marshal of the path mappings: an array of objects keyed by the json tags
\* of IRODSFSPathMapping.
jsonMarshal(mappings) ==
    [i \in 1..Len(mappings) |->
        [irods_path |-> mappings[i].IRODSPath,
         mapping_path |-> mappings[i].MappingPath,
         resource_type |-> mappings[i].ResourceType,
         read_only |-> mappings[i].ReadOnly,
         create_dir |-> mappings[i].CreateDir,
         ignore_not_exist_error |-> mappings[i].IgnoreNotExistError]]

\* fmt.Sprintf("%d", n)
Sprintd(n) == ToString(n)

\* LabelsFromJob: the labels of the job's objects; ok is whether Apps answers
\* the lookups the labels need.
LabelsFromJob(j, ok) ==
    IF ok
    THEN [labels |-> ("app-type" :> "interactive") @@
                     ("external-id" :> j.InvocationID) @@ ("user-id" :> j.UserID),
          err |-> "nil"]
    ELSE [labels |-> EmptyMap, err |-> "labels: Apps lookup failed"]

\* constants.CSIDriverDataVolumeNamePrefix, CSIDriverDataVolumeClaimNamePrefix
CSIDriverDataVolumeNamePrefix == "csi-data-volume"
CSIDriverDataVolumeClaimNamePrefix == "csi-data-volume-claim"

getCSIDataVolumeHandle(j) == CSIDriverDataVolumeNamePrefix \o "-handle-" \o j.InvocationID

getCSIDataVolumeName(j) == CSIDriverDataVolumeNamePrefix \o "-" \o j.InvocationID

getCSIDataVolumeClaimName(j) ==
    CSIDriverDataVolumeClaimNamePrefix \o "-" \o j.InvocationID

\* getCSIDataVolumeLabels
getCSIDataVolumeLabels(j, ok) ==
    LET res == LabelsFromJob(j, ok)
    IN  IF res.err # "nil" THEN res
        ELSE [labels |-> Put(res.labels, "volume-name", getCSIDataVolumeName(j)),
              err |-> "nil"]

dataPathMappingsOutputFirst(j, inputPathMappings) ==
    <<getOutputPathMapping(j)>> \o inputPathMappings \o
    (IF j.UserHome # "" THEN <<getHomePathMapping(j)>> ELSE <<>>) \o
    <<getSharedPathMapping>>

\* The path mappings of the data volume, in the order getPersistentVolumes
\* appends them.
dataPathMappings(j, inputPathMappings) ==
    inputPathMappings \o <<getOutputPathMapping(j)>> \o
    (IF j.UserHome # "" THEN <<getHomePathMapping(j)>> ELSE <<>>) \o
    <<getSharedPathMapping>>

\* The VolumeAttributes of the data volume.
volumeAttributes(j, mappings) ==
    [client |-> "irodsfuse",
     path_mapping_json |-> jsonMarshal(mappings),
     no_permission_check |-> "true",
     clientUser |-> j.Submitter,
     uid |-> Sprintd(j.Steps[1].Container.UID),
     gid |-> Sprintd(j.Steps[1].Container.UID)]

\* getPersistentVolumes: the volumes and the error it returns.
getPersistentVolumes(j, UseCSIDriver, labelsOK) ==
    LET inputs == getInputPathMappings(j)
        labels == getCSIDataVolumeLabels(j, labelsOK)
        dataVolume ==
            [Name |-> getCSIDataVolumeName(j),
             Labels |-> labels.labels,
             Capacity |-> "5Gi",
             VolumeMode |-> "Filesystem",
             AccessModes |-> <<"ReadWriteMany">>,
             PersistentVolumeReclaimPolicy |-> "Retain",
             StorageClassName |-> "constants.CSIDriverStorageClassName",
             Driver |-> "constants.CSIDriverName",
             VolumeHandle |-> getCSIDataVolumeHandle(j),
             VolumeAttributes |->
                 volumeAttributes(j, dataPathMappings(j, inputs.mappings))]
    IN  IF ~UseCSIDriver THEN [pvs |-> <<>>, err |-> "nil"]
        ELSE IF inputs.err # "nil" THEN [pvs |-> <<>>, err |-> inputs.err]
        ELSE IF labels.err # "nil" THEN [pvs |-> <<>>, err |-> labels.err]
        ELSE [pvs |-> <<dataVolume>>, err |-> "nil"]

getPersistentVolumeClaimsSelfBound(j, UseCSIDriver, labelsOK) ==
    LET labels == LabelsFromJob(j, labelsOK)
        dataVolumeClaim ==
            [Name |-> getCSIDataVolumeClaimName(j),
             Labels |-> labels.labels,
             AccessModes |-> <<"ReadWriteMany">>,
             StorageClassName |-> "constants.CSIDriverStorageClassName",
             VolumeName |-> getCSIDataVolumeClaimName(j),
             Requests |-> "5Gi"]
    IN  IF ~UseCSIDriver THEN [claims |-> <<>>, err |-> "nil"]
        ELSE IF labels.err # "nil" THEN [claims |-> <<>>, err |-> labels.err]
        ELSE [claims |-> <<dataVolumeClaim>>, err |-> "nil"]

\* getPersistentVolumeClaims: the claims and the error it returns.
getPersistentVolumeClaims(j, UseCSIDriver, labelsOK) ==
    LET labels == LabelsFromJob(j, labelsOK)
        dataVolumeClaim ==
            [Name |-> getCSIDataVolumeClaimName(j),
             Labels |-> labels.labels,
             AccessModes |-> <<"ReadWriteMany">>,
             StorageClassName |-> "constants.CSIDriverStorageClassName",
             VolumeName |-> getCSIDataVolumeName(j),
             Requests |-> "5Gi"]
    IN  IF ~UseCSIDriver THEN [claims |-> <<>>, err |-> "nil"]
        ELSE IF labels.err # "nil" THEN [claims |-> <<>>, err |-> labels.err]
        ELSE [claims |-> <<dataVolumeClaim>>, err |-> "nil"]

\* getPersistentVolumeSources: the pod volumes (its error is always nil).
getPersistentVolumeSources(j, UseCSIDriver) ==
    IF UseCSIDriver
    THEN [volumes |-> <<[Name |-> getCSIDataVolumeClaimName(j),
                         ClaimName |-> getCSIDataVolumeClaimName(j)]>>,
          err |-> "nil"]
    ELSE [volumes |-> <<>>, err |-> "nil"]

\* getPersistentVolumeMounts: the volume mounts.  The mount path is a constant
\* of another package and is held by name.
getPersistentVolumeMounts(j, UseCSIDriver) ==
    IF UseCSIDriver
    THEN <<[Name |-> getCSIDataVolumeClaimName(j),
            MountPath |-> "constants.CSIDriverLocalMountPath"]>>
    ELSE <<>>

\* constants.FileTransfersPortName, constants.VICEProxyPortName
FileTransfersPortName == "file-transfers"
VICEProxyPortName == "vice-proxy"

FromStringNumbered(val) == [Type |-> "Int", IntVal |-> 0, StrVal |-> ""]

\* intstr.FromString: an IntOrString that holds a string.
FromString(val) == [Type |-> "String", IntVal |-> 0, StrVal |-> val]

\* getService: the Service and the error it returns.  The port numbers are
\* constants of another package and are held by name.
getService(j, labelsOK) ==
    LET labels == LabelsFromJob(j, labelsOK)
        svc == [Name |-> "vice-" \o j.InvocationID,
                Labels |-> labels.labels,
                Selector |-> ("external-id" :> j.InvocationID),
                Ports |-> <<[Name |-> FileTransfersPortName, Protocol |-> "TCP",
                             Port |-> "constants.FileTransfersPort",
                             TargetPort |-> FromString(FileTransfersPortName)],
                            [Name |-> VICEProxyPortName, Protocol |-> "TCP",
                             Port |-> "constants.VICEProxyServicePort",
                             TargetPort |-> FromString(VICEProxyPortName)]>>]
    IN  IF labels.err # "nil" THEN [svcs |-> <<>>, err |-> labels.err]
        ELSE [svcs |-> <<svc>>, err |-> "nil"]

NoBuilt == [fn |-> "none"]

\* The synthesis functions, each called on the job the model started with.
GetInputPathMappings ==
    /\ built = NoBuilt
    /\ built' = [fn |-> "getInputPathMappings", res |-> getInputPathMappings(job)]
    /\ UNCHANGED <<job, lv, serviceVars>>

GetPersistentVolumes ==
    /\ built = NoBuilt
    /\ \E UseCSIDriver \in BOOLEAN, labelsOK \in BOOLEAN :
           built' = [fn |-> "getPersistentVolumes", UseCSIDriver |-> UseCSIDriver,
                     labelsOK |-> labelsOK,
                     res |-> getPersistentVolumes(job, UseCSIDriver, labelsOK)]
    /\ UNCHANGED <<job, lv, serviceVars>>

GetService ==
    /\ built = NoBuilt
    /\ \E labelsOK \in BOOLEAN :
           built' = [fn |-> "getService", labelsOK |-> labelsOK,
                     res |-> getService(job, labelsOK)]
    /\ UNCHANGED <<job, lv, serviceVars>>

GetPersistentVolumeClaims ==
    /\ built = NoBuilt
    /\ \E UseCSIDriver \in BOOLEAN, labelsOK \in BOOLEAN :
           built' = [fn |-> "getPersistentVolumeClaims", UseCSIDriver |-> UseCSIDriver,
                     labelsOK |-> labelsOK,
                     res |-> getPersistentVolumeClaims(job, UseCSIDriver, labelsOK)]
    /\ UNCHANGED <<job, lv, serviceVars>>

GetPersistentVolumeSources ==
    /\ built = NoBuilt
    /\ \E UseCSIDriver \in BOOLEAN :
           built' = [fn |-> "getPersistentVolumeSources", UseCSIDriver |-> UseCSIDriver,
                     res |-> getPersistentVolumeSources(job, UseCSIDriver)]
    /\ UNCHANGED <<job, lv, serviceVars>>

GetPersistentVolumeMounts ==
    /\ built = NoBuilt
    /\ \E UseCSIDriver \in BOOLEAN :
           built' = [fn |-> "getPersistentVolumeMounts", UseCSIDriver |-> UseCSIDriver,
                     res |-> getPersistentVolumeMounts(job, UseCSIDriver)]
    /\ UNCHANGED <<job, lv, serviceVars>>

NoLabel == [in |-> <<>>, out |-> <<>>, done |-> FALSE]

(***************************************************************************)
(* Label values.  A string is held as the sequence of its characters.      *)
(***************************************************************************)
\* The characters of [A-Za-z0-9] that occur in the model's strings, and the
\* characters the generated strings are made of.
Alnum == {"a", "b", "f", "o", "q", "r", "u", "x", "z", "7"}
Chars == {"a", "7", "_", "-"}

\* The fixtures of TestLabelValueReplacement.
Fixtures ==
    <<
      \* foo_ -> foo-xxx-u
      [in |-> <<"f", "o", "o", "_">>,
       out |-> <<"f", "o", "o", "-", "x", "x", "x", "-", "u">>],
      \* foo__ -> foo-xxx-u-u
      [in |-> <<"f", "o", "o", "_", "_">>,
       out |-> <<"f", "o", "o", "-", "x", "x", "x", "-", "u", "-", "u">>],
      \* foo_-_ -> foo-xxx-u-h-u
      [in |-> <<"f", "o", "o", "_", "-", "_">>,
       out |-> <<"f", "o", "o", "-", "x", "x", "x", "-", "u", "-", "h", "-", "u">>],
      \* -foo -> h-xxx-foo
      [in |-> <<"-", "f", "o", "o">>,
       out |-> <<"h", "-", "x", "x", "x", "-", "f", "o", "o">>],
      \* -_-foo -> h-u-h-xxx-foo
      [in |-> <<"-", "_", "-", "f", "o", "o">>,
       out |-> <<"h", "-", "u", "-", "h", "-", "x", "x", "x", "-", "f", "o", "o">>],
      \* -_-foo-bar-_- -> h-u-h-xxx-foo-bar-xxx-h-u-h
      [in |-> <<"-", "_", "-", "f", "o", "o", "-", "b", "a", "r", "-", "_", "-">>,
       out |-> <<"h", "-", "u", "-", "h", "-", "x", "x", "x", "-", "f", "o", "o", "-", "b",
                  "a", "r", "-", "x", "x", "x", "-", "h", "-", "u", "-", "h">>],
      \* ___foo_bar___ -> u-u-u-xxx-foo_bar-xxx-u-u-u
      [in |-> <<"_", "_", "_", "f", "o", "o", "_", "b", "a", "r", "_", "_", "_">>,
       out |-> <<"u", "-", "u", "-", "u", "-", "x", "x", "x", "-", "f", "o", "o", "_", "b",
                  "a", "r", "-", "x", "x", "x", "-", "u", "-", "u", "-", "u">>],
      \* ____foo__bar--baz__quux____ -> u-u-u-u-xxx-foo__bar-baz__quux-xxx-u-u-u-u
      [in |-> <<"_", "_", "_", "_", "f", "o", "o", "_", "_", "b", "a", "r", "-", "-", "b",
                 "a", "z", "_", "_", "q", "u", "u", "x", "_", "_", "_", "_">>,
       out |-> <<"u", "-", "u", "-", "u", "-", "u", "-", "x", "x", "x", "-", "f", "o", "o",
                  "_", "_", "b", "a", "r", "-", "b", "a", "z", "_", "_", "q", "u", "u", "x",
                  "-", "x", "x", "x", "-", "u", "-", "u", "-", "u", "-", "u">>]
    >>

\* The strings given to LabelValueString: the fixtures' inputs, and every string
\* of at most MaxLen characters with a character of [A-Za-z0-9] in it.
LabelInputs ==
    {Fixtures[i].in : i \in 1..Len(Fixtures)} \cup
    UNION {{str \in [1..n -> Chars] : \E i \in 1..n : str[i] \in Alnum} : n \in 1..MaxLen}

IsCore(c) == c \in Alnum

RECURSIVE leadingRun(_)
\* The leading characters outside [A-Za-z0-9].
leadingRun(str) ==
    IF str = <<>> \/ IsCore(Head(str)) THEN <<>>
    ELSE <<Head(str)>> \o leadingRun(Tail(str))

RECURSIVE trailingRun(_)
\* The trailing characters outside [A-Za-z0-9].
trailingRun(str) ==
    IF str = <<>> \/ IsCore(str[Len(str)]) THEN <<>>
    ELSE trailingRun(SubSeq(str, 1, Len(str) - 1)) \o <<str[Len(str)]>>

markerSwapped(c) == IF c = "_" THEN "h" ELSE "u"

\* The marker of a character of a run: _ becomes u, - becomes h.
marker(c) == IF c = "_" THEN "u" ELSE "h"

RECURSIVE markers(_)
\* The markers of a run, joined by -.
markers(run) ==
    IF run = <<>> THEN <<>>
    ELSE IF Len(run) = 1 THEN <<marker(run[1])>>
    ELSE <<marker(run[1]), "-">> \o markers(Tail(run))

RECURSIVE interior(_)
\* The core of the string as the label value carries it: as it is, but for a
\* run of hyphens, which is carried as one hyphen.
interior(core) ==
    IF Len(core) < 2 THEN core
    ELSE IF core[1] = "-" /\ core[2] = "-" THEN interior(Tail(core))
    ELSE <<core[1]>> \o interior(Tail(core))

Separator == <<"-", "x", "x", "x", "-">>

\* LabelValueString
LabelValueString(str) ==
    LET lead == leadingRun(str)
        trail == trailingRun(str)
        core == SubSeq(str, Len(lead) + 1, Len(str) - Len(trail))
    IN  (IF lead = <<>> THEN <<>> ELSE markers(lead) \o Separator) \o
        interior(core) \o
        (IF trail = <<>> THEN <<>> ELSE Separator \o markers(trail))

\* LabelValueString is applied to the string the model started with.
ApplyLabelValueString ==
    /\ ~lv.done
    /\ lv' = [in |-> lv.in, out |-> LabelValueString(lv.in), done |-> TRUE]
    /\ UNCHANGED <<job, built, serviceVars>>

(***************************************************************************)
(* Specifications.                                                         *)
(***************************************************************************)
\* The publisher and the lifecycle that drives it: analysis e1 is yet to be
\* launched, analysis e2 was launched, reported Running and is paused.
InitPublish ==
    /\ cluster = [o \in ObjIds |-> IF o = "dep-e2" THEN PausedObject(FullLabels(o))
                                  ELSE NewObject(FullLabels(o))]
    /\ sw = IdleSweep
    /\ writes = 0
    /\ resp = NoResp
    /\ phase = [j \in ExternalIDs |-> IF j = "e2" THEN "Paused" ELSE "Absent"]
    /\ posted = [j \in ExternalIDs |-> IF j = "e2" THEN <<"Running">> ELSE <<>>]
    /\ lastPost = NoPost
    /\ job = NoJob /\ built = NoBuilt /\ lv = NoLabel

NextPublish ==
    \E j \in ExternalIDs :
        \/ Launch(j)
        \/ PodReady(j)
        \/ ReportRunning(j)
        \/ Pause(j)
        \/ Resume(j)
        \/ Terminate(j)

SpecPublish == InitPublish /\ [][NextPublish]_vars

\* The label sweep, racing with Pause and Resume of the running analyses.
InitSweep ==
    /\ InitCluster
    /\ sw = IdleSweep
    /\ writes = 0
    /\ resp = NoResp
    /\ phase = [j \in ExternalIDs |-> IF j = "e2" THEN "Paused" ELSE "Running"]
    /\ posted = [j \in ExternalIDs |-> <<"Running">>]
    /\ lastPost = NoPost
    /\ job = NoJob /\ built = NoBuilt /\ lv = NoLabel

NextSweep ==
    \/ ApplyAsyncLabelsStart
    \/ ApplyAsyncLabels
    \/ \E j \in ExternalIDs : Pause(j) \/ Resume(j)

SpecSweep == InitSweep /\ [][NextSweep]_vars

\* A cluster in which the deployment of analysis e2 carries the subdomain of
\* analysis e1: labels are plain metadata that any client of the cluster can
\* set, and the service reads them back as it finds them.
SharedSubdomainCluster ==
    \E d1 \in {WithSubdomain("dep-e1"), FullLabels("dep-e1")} :
        cluster = [o \in ObjIds |->
                     IF o = "dep-e1" THEN NewObject(d1)
                     ELSE IF o = "dep-e2"
                     THEN PausedObject(Put(FullLabels(o), "subdomain",
                                           IngressName("u1", "e1")))
                     ELSE NewObject(FullLabels(o))]

\* The inspection handlers, over every cluster the model starts from.
InitInspect ==
    /\ InitCluster \/ SharedSubdomainCluster
    /\ sw = IdleSweep
    /\ writes = 0
    /\ resp = NoResp
    /\ phase = [j \in ExternalIDs |-> IF j = "e2" THEN "Paused" ELSE "Running"]
    /\ posted = [j \in ExternalIDs |-> <<"Running">>]
    /\ lastPost = NoPost
    /\ job = NoJob /\ built = NoBuilt /\ lv = NoLabel

NextInspect ==
    \/ FilterableDeploymentsHandler
    \/ FilterablePodsHandler
    \/ FilterableConfigMapsHandler
    \/ FilterableServicesHandler
    \/ FilterableIngressesHandler
    \/ FilterableResourcesHandler
    \/ AdminFilterableResourcesHandler
    \/ AdminDescribeAnalysisHandler
    \/ DescribeAnalysisHandler
    \/ ResponseSent

SpecInspect == InitInspect /\ [][NextInspect]_vars

\* The state of the running service while a job is synthesized on its own: no
\* request, sweep or lifecycle step is under way.
ServiceAtRest ==
    /\ cluster = [o \in ObjIds |-> NewObject(FullLabels(o))]
    /\ sw = IdleSweep
    /\ writes = 0
    /\ resp = NoResp
    /\ phase = [j \in ExternalIDs |-> "Absent"]
    /\ posted = [j \in ExternalIDs |-> <<>>]
    /\ lastPost = NoPost

\* The synthesis of a job's objects, over every job of one to MaxSteps steps
\* with at most MaxInputs inputs.
InitSynthesize ==
    /\ ServiceAtRest
    /\ \E n \in 0..MaxInputs :
           \E flat \in [1..n -> StepInputs], cuts \in Cuts(n),
              first \in FirstContainers, sub \in Submissions :
               job = JobOf(sub, first, flat, cuts)
    /\ built = NoBuilt
    /\ lv = NoLabel

NextSynthesize ==
    \/ GetInputPathMappings
    \/ GetPersistentVolumes
    \/ GetPersistentVolumeClaims
    \/ GetPersistentVolumeSources
    \/ GetPersistentVolumeMounts
    \/ GetService

SpecSynthesize == InitSynthesize /\ [][NextSynthesize]_vars

\* LabelValueString, over every string of the model.
InitLabels ==
    /\ ServiceAtRest
    /\ job = NoJob
    /\ built = NoBuilt
    /\ lv \in {[in |-> str, out |-> <<>>, done |-> FALSE] : str \in LabelInputs}

NextLabels == ApplyLabelValueString

SpecLabels == InitLabels /\ [][NextLabels]_vars

Init == InitSweep

Next == NextPublish \/ NextSweep \/ NextInspect \/ NextSynthesize
        \/ NextLabels

\* The whole program: requests, sweeps and lifecycle steps in any order.
Spec == Init /\ [][Next]_vars

(***************************************************************************)
(* Properties of the label sweep.                                          *)
(***************************************************************************)
DerivedLabels == {"subdomain", "login-ip", "analysis-id"}

SweptObjs == UNION {Range(KindObjs[SweepKinds[i]]) : i \in 1..Len(SweepKinds)}

Interactive(labels) == Has(labels, "app-type") /\ labels["app-type"] = "interactive"

MissingDerived(labels) == \E k \in DerivedLabels : ~Has(labels, k)

ConsistentWithApps(labels) ==
    /\ Get(labels, "subdomain") = IngressName(labels["user-id"], labels["external-id"])
    /\ Get(labels, "login-ip") = UserIP(labels["user-id"])
    /\ Get(labels, "analysis-id") = AnalysisID(labels["external-id"])

AllComplete(c) ==
    \A o \in SweptObjs : Interactive(c[o].labels) => ~MissingDerived(c[o].labels)

AnalysisLookupFailed == "GetAnalysisIDByExternalID failed"

\* C5: after a sweep in which every Apps lookup and every cluster update
\* succeeded, every interactive object that had external-id and user-id and was
\* missing any one of subdomain, login-ip, analysis-id carries all three, with
\* the values Apps and IngressName give.
C5_SweepCompletesEveryIncompleteObject ==
    (sw.pc = "done" /\ sw.failed = <<>>) =>
        \A o \in SweptObjs :
            LET before == sw.pre[o].labels
            IN  (/\ Interactive(before)
                 /\ Has(before, "external-id") /\ Has(before, "user-id")
                 /\ MissingDerived(before))
                => (/\ ~MissingDerived(cluster[o].labels)
                    /\ ConsistentWithApps(cluster[o].labels))

\* C6: a write of the sweep never changes a non-label field of any object,
\* also when the object it writes was changed by Pause or Resume after the sweep
\* listed it: the replica counts stay as the other writer left them.
C6_SweepLeavesReplicasAlone ==
    [][sw'.updates > sw.updates =>
          \A o \in ObjIds : cluster'[o].replicas = cluster[o].replicas]_vars

\* The sweep has sent an update for an object that Pause changed after the
\* sweep listed it, and the object still has the replica count Pause gave it.
C6_Witness ==
    /\ sw.stale
    /\ \E o \in sw.attempted : cluster[o].replicas = 0 /\ sw.pre[o].replicas = 1

\* C7 (as amended): a failure within a sweep aborts nothing: all four kinds are
\* listed, every listed object has its update attempted, and the errors returned
\* are the failures in order, except that a failed analysis-id lookup is not
\* among them; the handler answers 500 exactly when there are errors.
C7_FailuresAbortNothing ==
    sw.pc = "done" =>
        /\ sw.kindsTried = Range(SweepKinds)
        /\ sw.attempted = sw.listed
        /\ sw.errors = SelectSeq(sw.failed, LAMBDA f : f # AnalysisLookupFailed)
        /\ sw.status = IF Len(sw.errors) > 0 THEN 500 ELSE 200

\* A sweep ended in which a lookup or an update failed and objects were updated.
C7_Witness ==
    /\ sw.pc = "done"
    /\ \E f \in Range(sw.failed) : f \in {"GetUserIP failed", "Update failed"}
    /\ Cardinality(sw.attempted) >= 3

\* C7 as stated: every failure of the sweep appears in the errors returned.
C7_EveryFailureReturned ==
    sw.pc = "done" =>
        /\ sw.kindsTried = Range(SweepKinds)
        /\ sw.attempted = sw.listed
        /\ sw.errors = sw.failed

\* C8 (as amended): when Apps cannot resolve an object's external-id, the
\* object's analysis-id label stays unset, the sweep goes on through every listed
\* object and every kind, and the failure is only logged: it is not in the
\* errors the sweep returns.
C8_LookupFailureOnlyLogged ==
    /\ \A o \in sw.idFailed : ~Has(cluster[o].labels, "analysis-id")
    /\ AnalysisLookupFailed \notin Range(sw.errors)
    /\ sw.pc = "done" => (sw.attempted = sw.listed /\ sw.kindsTried = Range(SweepKinds))

\* A sweep ended in which an analysis-id lookup failed.
C8_Witness ==
    sw.pc = "done" /\ sw.idFailed # {} /\ Cardinality(sw.attempted) >= 2

\* C8 as stated: the failed lookup is in the errors the sweep returns.
C8_LookupFailureReturned ==
    sw.pc = "done" =>
        /\ \A o \in sw.idFailed : ~Has(cluster[o].labels, "analysis-id")
        /\ sw.idFailed # {} => AnalysisLookupFailed \in Range(sw.errors)

\* C9: a sweep over objects that all carry subdomain, login-ip and analysis-id
\* issues no update and changes nothing; and no step of a sweep that follows a
\* sweep without any failure changes any object.
C9_CompleteSweepIsNoOp ==
    [][(sw.pc \in {"list", "items"} /\ sw' # sw) =>
          /\ AllComplete(sw.pre) => (cluster' = cluster /\ sw'.updates = 0)
          /\ sw.prevClean => cluster' = cluster]_vars

\* A second sweep has ended after a first one that labelled the config map
\* (which only a sweep writes) and failed nowhere.
C9_Witness ==
    /\ sw.run = 2 /\ sw.pc = "done" /\ sw.prevClean
    /\ cluster["cm-e1"].rv > 1

(***************************************************************************)
(* Properties of the status publisher.                                     *)
(***************************************************************************)
Acceptable(code) == 200 <= code /\ code < 400

\* C1: whenever the listener answers with a status code outside [200, 400),
\* postStatus returns a non-nil error; it returns nil only for a code inside.
C1_ErrorOutsideAcceptableCodes ==
    (lastPost.responded /\ ~Acceptable(lastPost.code)) => lastPost.err # "nil"

\* C10: for every analysis the statuses posted are Running any number of times,
\* then at most one of Succeeded and Failed, and nothing after it.
C10_StatusOrder ==
    \A j \in ExternalIDs :
        \A i \in 1..Len(posted[j]) :
            posted[j][i] \in TerminalStates => i = Len(posted[j])

\* An analysis reported Running twice and then its one terminal status.
C10_Witness ==
    \E j \in ExternalIDs :
        /\ Len(posted[j]) >= 3
        /\ posted[j][1] = "Running" /\ posted[j][2] = "Running"
        /\ posted[j][Len(posted[j])] \in TerminalStates
        /\ phase[j] = "Terminated"

(***************************************************************************)
(* Properties of the inspection handlers.                                  *)
(***************************************************************************)
KindHandlers ==
    {"FilterableDeploymentsHandler", "FilterablePodsHandler",
     "FilterableConfigMapsHandler", "FilterableServicesHandler",
     "FilterableIngressesHandler"}

NonAdminHandlers ==
    KindHandlers \cup {"FilterableResourcesHandler", "DescribeAnalysisHandler"}

FilterableHandlers ==
    KindHandlers \cup {"FilterableResourcesHandler", "AdminFilterableResourcesHandler"}

\* Some deployment of the cluster matches the selector the request listed with.
DeploymentMatched ==
    /\ Len(resp.listOpts) > 0
    /\ \E o \in Range(KindObjs["deployments"]) :
          Matches(resp.listOpts[1], cluster[o].labels)

\* The request resolved an analysis-id and Permissions allowed its user.
Gated ==
    /\ "GetAnalysisIDByExternalID" \in Range(resp.appsCalls)
    /\ Len(resp.permsCalls) > 0
    /\ resp.permsCalls[Len(resp.permsCalls)].verdict = "allow"

\* C2: a non-admin listing endpoint whose filter matches a deployment answers
\* 200 only after the analysis-id was resolved and Permissions allowed the user,
\* and answers 403 without a listing when Permissions denies.
C2_NonAdminListingsGated ==
    resp.handler \in NonAdminHandlers =>
        /\ (resp.status = 200 /\ DeploymentMatched) => Gated
        /\ (\E i \in 1..Len(resp.permsCalls) : resp.permsCalls[i].verdict = "deny")
               => (resp.status = 403 /\ resp.listing = EmptyMap)

\* C3: whatever the query, every selector a filterable endpoint lists with
\* requires app-type=interactive, and every object returned is interactive.
C3_SelectorAlwaysInteractive ==
    resp.handler \in FilterableHandlers =>
        /\ \A i \in 1..Len(resp.listOpts) :
              Get(resp.listOpts[i].eq, "app-type") = "interactive"
        /\ \A k \in DOMAIN resp.listing :
              \A i \in 1..Len(resp.listing[k]) :
                  Interactive(cluster[resp.listing[k][i].name].labels)

\* C4 (as amended): one describe-by-host request makes at most two calls to
\* Apps, GetUserID and then GetAnalysisIDByExternalID, and at most one call
\* to Permissions.
C4_DescribeCallBudget ==
    resp.handler = "DescribeAnalysisHandler" =>
        /\ Len(resp.appsCalls) <= 2
        /\ resp.appsCalls =
              SubSeq(<<"GetUserID", "GetAnalysisIDByExternalID">>, 1, Len(resp.appsCalls))
        /\ Len(resp.permsCalls) <= 1
        /\ Len(resp.permsCalls) = 1 => Len(resp.appsCalls) = 2

\* A describe request was allowed: it called Apps twice and Permissions once.
C4_Witness ==
    /\ resp.handler = "DescribeAnalysisHandler"
    /\ resp.status = 200
    /\ Len(resp.appsCalls) = 2
    /\ Len(resp.permsCalls) = 1

\* C4 as stated: at most one call to Apps and at most one to Permissions.
C4_OneAppsCall ==
    resp.handler = "DescribeAnalysisHandler" =>
        (Len(resp.appsCalls) <= 1 /\ Len(resp.permsCalls) <= 1)

\* What the cluster holds for a selector: per kind, the infos of its objects the
\* selector matches.
ListedBy(opts) ==
    [k \in Range(Kinds) |->
        LET ids == SelectSeq(KindObjs[k], LAMBDA o : Matches(opts, cluster[o].labels))
        IN  [i \in 1..Len(ids) |-> metaInfo(Item(ids[i]))]]

\* The id Apps holds for the user the request named.
ResolvedUserID == AppsUserID(fixUsername(resp.user))

UserGatedHandlers == {"FilterableResourcesHandler", "DescribeAnalysisHandler"}

AdminHandlers == {"AdminDescribeAnalysisHandler", "AdminFilterableResourcesHandler"}

\* C14: in FilterableResourcesHandler no selector of the five listings has the
\* key user, every one requires user-id to be the id Apps returned for the
\* suffix-fixed user name, whatever user-id the query carries, and every object
\* of the listing answered belongs to that user-id.
C14_SelectorUsesResolvedUserID ==
    resp.handler = "FilterableResourcesHandler" =>
        /\ \A i \in 1..Len(resp.listOpts) :
              /\ ~Has(resp.listOpts[i].eq, "user")
              /\ ResolvedUserID # ""
              /\ Get(resp.listOpts[i].eq, "user-id") = ResolvedUserID
        /\ resp.status = 200 => Len(resp.listOpts) = Len(Kinds)
        /\ \A k \in DOMAIN resp.listing :
              \A i \in 1..Len(resp.listing[k]) :
                  resp.listing[k][i].userID = ResolvedUserID

\* alice asked for user-id=u2 and was answered with her own deployment.
C14_Witness ==
    /\ resp.handler = "FilterableResourcesHandler"
    /\ resp.status = 200
    /\ resp.user = "alice"
    /\ Has(resp.query, "user-id") /\ resp.query["user-id"][1] = "u2"
    /\ Len(resp.listing["deployments"]) > 0

\* C15: when Apps does not know the requesting user, FilterableResourcesHandler
\* and DescribeAnalysisHandler answer 404 (or 500 when the lookup itself failed),
\* having made no list call and no Permissions call; and whenever one of them
\* made a list call, GetUserID was called first and knew the user.
C15_UnknownUserNotFound ==
    resp.handler \in UserGatedHandlers =>
        /\ (resp.user # "" /\ ResolvedUserID = "") =>
              /\ resp.listOpts = <<>>
              /\ resp.permsCalls = <<>>
              /\ resp.appsCalls = <<"GetUserID">>
              /\ resp.listing = EmptyMap
              /\ IF resp.failed = "GetUserID"
                 THEN resp.status = 500
                 ELSE resp.status = 404 /\ resp.body = UserNotFound(fixUsername(resp.user))
        /\ resp.listOpts # <<>> =>
              /\ Len(resp.appsCalls) > 0 /\ resp.appsCalls[1] = "GetUserID"
              /\ ResolvedUserID # ""

\* ghost asked for the description of a host that has a deployment: 404.
C15_Witness ==
    /\ resp.handler = "DescribeAnalysisHandler"
    /\ resp.user = "ghost"
    /\ resp.status = 404
    /\ resp.body = "user ghost@s not found"

\* C16: DescribeAnalysisHandler, for a user Apps knows and a listing that
\* succeeded.  No deployment matches the host: 200 with the listing, no
\* analysis-id resolved, Permissions not called.  Some deployment matches: the
\* first one's analysis-id is resolved and, unless that lookup fails, Permissions
\* is asked once about the user and that analysis-id; deny is answered 403 with a
\* body naming the user and the analysis-id, allow 200 with the listing.
C16_DescribeGate ==
    (/\ resp.handler = "DescribeAnalysisHandler"
     /\ resp.user # "" /\ ResolvedUserID # ""
     /\ resp.failed \notin {"GetUserID", "list"}) =>
        LET found == ListedBy(resp.listOpts[1])
            deployments == found["deployments"]
            analysisID == AnalysisID(deployments[1].externalID)
        IN  /\ Len(resp.listOpts) = Len(Kinds)
            /\ IF Len(deployments) = 0
               THEN /\ resp.status = 200 /\ resp.listing = found
                    /\ resp.appsCalls = <<"GetUserID">>
                    /\ resp.permsCalls = <<>>
               ELSE /\ resp.appsCalls = <<"GetUserID", "GetAnalysisIDByExternalID">>
                    /\ IF resp.failed = "GetAnalysisIDByExternalID"
                       THEN resp.status = 500 /\ resp.permsCalls = <<>>
                       ELSE /\ Len(resp.permsCalls) = 1
                            /\ resp.permsCalls[1].user = resp.user
                            /\ resp.permsCalls[1].analysisID = analysisID
                            /\ resp.permsCalls[1].verdict = "deny" =>
                                  /\ resp.status = 403
                                  /\ resp.listing = EmptyMap
                                  /\ resp.body = CannotAccess(resp.user, analysisID)
                            /\ resp.permsCalls[1].verdict = "allow" =>
                                  resp.status = 200 /\ resp.listing = found

\* bob was denied the description of the host of alice's analysis.
C16_Witness ==
    /\ resp.handler = "DescribeAnalysisHandler"
    /\ resp.status = 403
    /\ resp.body = "user bob@s cannot access analysis an-e1"
    /\ Len(resp.listOpts) = Len(Kinds)

\* C17: the admin handlers call neither Apps nor Permissions, and answer 200
\* with what the cluster holds for the selector whenever no list call failed,
\* with or without a user parameter.
C17_AdminSkipsAppsAndPermissions ==
    resp.handler \in AdminHandlers =>
        /\ resp.appsCalls = <<>>
        /\ resp.permsCalls = <<>>
        /\ Len(resp.listOpts) > 0
        /\ IF resp.failed = ""
           THEN /\ resp.status = 200
                /\ Len(resp.listOpts) = Len(Kinds)
                /\ resp.listing = ListedBy(resp.listOpts[1])
           ELSE resp.status = 500 /\ resp.failed = "list"

\* An admin listing without any user parameter returned a deployment.
C17_Witness ==
    /\ resp.handler = "AdminFilterableResourcesHandler"
    /\ resp.status = 200
    /\ ~Has(resp.query, "user") /\ resp.user = ""
    /\ Len(resp.listing["deployments"]) > 0

(***************************************************************************)
(* Properties of the resource synthesis.                                   *)
(***************************************************************************)
RECURSIVE Flatten(_)
\* The inputs of the steps, in step and input order.
Flatten(steps) ==
    IF steps = <<>> THEN <<>>
    ELSE steps[1].Inputs \o Flatten(Tail(steps))

\* The inputs of the job that have a remote path.
Pathful == SelectSeq(Flatten(job.Steps), LAMBDA in : in.Path # <<>>)

KnownTypes == {"fileinput", "multifileselector", "folderinput"}

Unknown(in) == ToLower(in.Type) \notin KnownTypes

\* The k-th input has the base name of an earlier one.
Repeats(ins, k) ==
    \E i \in 1..(k - 1) : filepathBase(ins[i].Path) = filepathBase(ins[k].Path)

\* The collision error for the k-th input, against the i-th.
CollisionOf(ins, i, k) ==
    MountCollision(PathString(ins[k].Path),
                   CSIDriverInputVolumeMountPath \o "/" \o filepathBase(ins[k].Path),
                   PathString(ins[i].Path))

\* The PersistentVolume a getPersistentVolumes call returned.
ReturnedPV == built.fn = "getPersistentVolumes" /\ built.res.pvs # <<>>

\* C11: the PersistentVolume's driver attributes are uid = UID and gid = GID of
\* the first step's Component container, clientUser = Submitter, client =
\* irodsfuse and no_permission_check = true.
C11_DriverAttributesFromComponent ==
    ReturnedPV =>
        LET attrs == built.res.pvs[1].VolumeAttributes
            container == job.Steps[1].Container
        IN  /\ attrs.uid = ToString(container.UID)
            /\ attrs.gid = ToString(container.GID)
            /\ attrs.clientUser = job.Submitter
            /\ attrs.client = "irodsfuse"
            /\ attrs.no_permission_check = "true"

\* C12 (as amended): when two inputs with a remote path share a base name, in
\* one step or across steps, and no input with a remote path up to the second
\* of them has an unknown type, getInputPathMappings returns no mappings and
\* the collision error of the first repeated base name, naming the new path,
\* the mount path and the path mapped there; when the inputs with a remote path
\* have distinct base names and known types, it returns one mapping for each of
\* them, in input order, mounted at <input mount root>/<base name>.
C12_CollisionAmongPathfulInputs ==
    built.fn = "getInputPathMappings" =>
        LET ins == Pathful
            res == built.res
            firstRepeat == CHOOSE k \in 1..Len(ins) :
                               Repeats(ins, k) /\ \A m \in 1..(k - 1) : ~Repeats(ins, m)
            earlier == CHOOSE i \in 1..(firstRepeat - 1) :
                           filepathBase(ins[i].Path) = filepathBase(ins[firstRepeat].Path)
        IN  /\ (\E k \in 1..Len(ins) : Repeats(ins, k) /\ \A m \in 1..k : ~Unknown(ins[m]))
                  => /\ res.mappings = <<>>
                     /\ res.err = CollisionOf(ins, earlier, firstRepeat)
            /\ (\A k \in 1..Len(ins) : ~Repeats(ins, k) /\ ~Unknown(ins[k]))
                  => /\ res.err = "nil"
                     /\ Len(res.mappings) = Len(ins)
                     /\ \A k \in 1..Len(ins) :
                           /\ res.mappings[k].IRODSPath = PathString(ins[k].Path)
                           /\ res.mappings[k].MappingPath =
                                 CSIDriverInputVolumeMountPath \o "/" \o
                                 filepathBase(ins[k].Path)

\* Two inputs of different steps collided at /input/reads.fq.
C12_Witness ==
    /\ built.fn = "getInputPathMappings"
    /\ Len(job.Steps) = 2
    /\ Len(job.Steps[1].Inputs) = 1 /\ Len(job.Steps[2].Inputs) = 1
    /\ built.res.mappings = <<>>
    /\ built.res.err = MountCollision("/iplant/home/bob/reads.fq", "/input/reads.fq",
                                      "/iplant/home/alice/reads.fq")

\* C12 as stated: any two inputs with the same base name make the call fail
\* with the collision error of such a pair; distinct base names and known types
\* give one mapping per input of the job.
C12_CollisionOrOneMappingPerInput ==
    built.fn = "getInputPathMappings" =>
        LET all == Flatten(job.Steps)
            ins == Pathful
            res == built.res
        IN  /\ (\E k \in 1..Len(ins) : Repeats(ins, k))
                  => /\ res.mappings = <<>>
                     /\ \E k \in 1..Len(ins), i \in 1..Len(ins) :
                           i < k /\ res.err = CollisionOf(ins, i, k)
            /\ ((\A k \in 1..Len(ins) : ~Repeats(ins, k))
                /\ \A k \in 1..Len(all) : ~Unknown(all[k]))
                  => res.err = "nil" /\ Len(res.mappings) = Len(all)

\* C13: fileinput and multifileselector inputs are mapped as file, folderinput
\* inputs as dir, and a job with an input of any other type fails, whatever the
\* input's remote path (the empty path included) and position.
C13_TypesMappedOrRejected ==
    built.fn = "getInputPathMappings" =>
        LET all == Flatten(job.Steps)
            ins == Pathful
            res == built.res
        IN  /\ (\E k \in 1..Len(all) : Unknown(all[k]))
                  => res.err # "nil" /\ res.mappings = <<>>
            /\ res.err = "nil" =>
                  \A k \in 1..Len(res.mappings) :
                      res.mappings[k].ResourceType =
                          IF ToLower(ins[k].Type) = "folderinput" THEN "dir" ELSE "file"

\* C18: the Service getService returns is named vice-<InvocationID>, selects
\* exactly external-id = InvocationID, and has exactly the two TCP ports
\* file-transfers and vice-proxy, in this order, each targeting the container
\* port of its own name, as a string; no Service is returned only when the
\* job's labels cannot be built.
C18_ServiceShape ==
    built.fn = "getService" =>
        IF built.res.err = "nil"
        THEN /\ Len(built.res.svcs) = 1
             /\ LET svc == built.res.svcs[1]
                IN  /\ svc.Name = "vice-" \o job.InvocationID
                    /\ DOMAIN svc.Selector = {"external-id"}
                    /\ svc.Selector["external-id"] = job.InvocationID
                    /\ Len(svc.Ports) = 2
                    /\ svc.Ports[1].Name = "file-transfers"
                    /\ svc.Ports[2].Name = "vice-proxy"
                    /\ \A i \in 1..2 :
                          /\ svc.Ports[i].Protocol = "TCP"
                          /\ svc.Ports[i].TargetPort.Type = "String"
                          /\ svc.Ports[i].TargetPort.StrVal = svc.Ports[i].Name
        ELSE built.res.svcs = <<>> /\ ~built.labelsOK

\* The Service of bob's job e2 was built.
C18_Witness ==
    /\ built.fn = "getService"
    /\ job.InvocationID = "e2"
    /\ Len(built.res.svcs) = 1
    /\ built.res.svcs[1].Name = "vice-e2"

\* C20: in remote-FS mode the path mappings encoded into the PersistentVolume
\* are the input mappings, all read-only, then the writable output mapping with
\* create_dir and ignore_not_exist_error set, then the home mapping exactly when
\* UserHome is not empty, then the shared mapping at /<zone>/home/shared; and
\* when the input mappings cannot be built, no PersistentVolume is returned.
C20_PathMappingOrder ==
    (built.fn = "getPersistentVolumes" /\ built.UseCSIDriver) =>
        LET inputs == getInputPathMappings(job)
            pvs == built.res.pvs
            list == pvs[1].VolumeAttributes.path_mapping_json
            k == Len(inputs.mappings)
            home == IF job.UserHome # "" THEN 1 ELSE 0
        IN  /\ inputs.err # "nil" => (pvs = <<>> /\ built.res.err = inputs.err)
            /\ Len(pvs) = (IF inputs.err = "nil" /\ built.labelsOK THEN 1 ELSE 0)
            /\ Len(pvs) = 1 =>
                  /\ inputs.err = "nil"
                  /\ Len(list) = k + 1 + home + 1
                  /\ \A i \in 1..k :
                        /\ list[i].irods_path = inputs.mappings[i].IRODSPath
                        /\ list[i].mapping_path = inputs.mappings[i].MappingPath
                        /\ list[i].read_only
                  /\ list[k + 1] =
                        [irods_path |-> job.OutputDirectory, mapping_path |-> "/output",
                         resource_type |-> "dir", read_only |-> FALSE,
                         create_dir |-> TRUE, ignore_not_exist_error |-> TRUE]
                  /\ home = 1 =>
                        /\ list[k + 2].irods_path = job.UserHome
                        /\ list[k + 2].mapping_path = job.UserHome
                        /\ ~list[k + 2].read_only
                  /\ list[Len(list)].irods_path = "/" \o IRODSZone \o "/home/shared"
                  /\ list[Len(list)].mapping_path = "/" \o IRODSZone \o "/home/shared"

\* A PersistentVolume with two input mappings, the output mapping, alice's home
\* mapping and the shared mapping.
C20_Witness ==
    /\ ReturnedPV
    /\ job.UserHome = "/iplant/home/alice"
    /\ Len(built.res.pvs[1].VolumeAttributes.path_mapping_json) = 5
    /\ built.res.pvs[1].VolumeAttributes.path_mapping_json[5].irods_path =
          "/iplant/home/shared"

(***************************************************************************)
(* Properties of LabelValueString.                                         *)
(***************************************************************************)
\* The number of leading, and of trailing, characters outside [A-Za-z0-9].
LeadLen(str) ==
    IF \A i \in 1..Len(str) : str[i] \notin Alnum THEN Len(str)
    ELSE (CHOOSE i \in 1..Len(str) :
              str[i] \in Alnum /\ \A m \in 1..(i - 1) : str[m] \notin Alnum) - 1

TrailLen(str) ==
    IF \A i \in 1..Len(str) : str[i] \notin Alnum THEN Len(str)
    ELSE Len(str) - (CHOOSE i \in 1..Len(str) :
                         str[i] \in Alnum /\ \A m \in (i + 1)..Len(str) : str[m] \notin Alnum)

\* The run is encoded: the marker of its k-th character at position 2k - 1, and
\* a - between two markers.
Encodes(enc, run) ==
    /\ Len(enc) = 2 * Len(run) - 1
    /\ \A k \in 1..Len(run) :
          enc[2 * k - 1] = (CASE run[k] = "_" -> "u" [] run[k] = "-" -> "h")
    /\ \A k \in 1..(Len(run) - 1) : enc[2 * k] = "-"

\* out is the label value of in, whose core is carried as middle.
Framed(in, out, middle) ==
    LET l == LeadLen(in)
        t == TrailLen(in)
        front == IF l = 0 THEN 0 ELSE 2 * l - 1 + 5
        back == IF t = 0 THEN 0 ELSE 2 * t - 1 + 5
    IN  /\ Len(out) = front + Len(middle) + back
        /\ l > 0 => /\ Encodes(SubSeq(out, 1, 2 * l - 1), SubSeq(in, 1, l))
                    /\ SubSeq(out, 2 * l, front) = <<"-", "x", "x", "x", "-">>
        /\ SubSeq(out, front + 1, front + Len(middle)) = middle
        /\ t > 0 => /\ SubSeq(out, front + Len(middle) + 1, front + Len(middle) + 5) =
                          <<"-", "x", "x", "x", "-">>
                    /\ Encodes(SubSeq(out, Len(out) - (2 * t - 1) + 1, Len(out)),
                               SubSeq(in, Len(in) - t + 1, Len(in)))

CoreOf(str) == SubSeq(str, LeadLen(str) + 1, Len(str) - TrailLen(str))

\* The core with every hyphen that follows a hyphen left out.
HyphenRunsAsOne(core) ==
    LET keep == {i \in 1..Len(core) : ~(i > 1 /\ core[i] = "-" /\ core[i - 1] = "-")}
        nth(k) == CHOOSE i \in keep : Cardinality({m \in keep : m < i}) = k - 1
    IN  [k \in 1..Cardinality(keep) |-> core[nth(k)]]

MatchesFixtures ==
    \A i \in 1..Len(Fixtures) : lv.in = Fixtures[i].in => lv.out = Fixtures[i].out

\* C19 (as amended): LabelValueString replaces the leading and the trailing run
\* of characters outside [A-Za-z0-9] by their markers (_ as u, - as h) joined by
\* -, set off from the core by -xxx-, and carries the core unchanged except that
\* a run of hyphens inside it becomes one hyphen; every fixture input gives the
\* listed output.
C19_MarkersAndHyphenRuns ==
    lv.done =>
        /\ Framed(lv.in, lv.out, HyphenRunsAsOne(CoreOf(lv.in)))
        /\ MatchesFixtures

\* The last fixture, whose core holds two hyphens in a row, has been converted.
C19_Witness ==
    /\ lv.done
    /\ lv.in = Fixtures[Len(Fixtures)].in
    /\ lv.out = Fixtures[Len(Fixtures)].out
    /\ Len(CoreOf(lv.in)) > Len(HyphenRunsAsOne(CoreOf(lv.in)))

\* C19 as stated: the core is carried unchanged, character for character, and
\* every fixture input gives the listed output.
C19_CoreUnchanged ==
    lv.done =>
        /\ Framed(lv.in, lv.out, CoreOf(lv.in))
        /\ MatchesFixtures

(***************************************************************************)
(* Properties of the volume objects.                                       *)
(***************************************************************************)
VolumeFunctions ==
    {"getPersistentVolumes", "getPersistentVolumeClaims",
     "getPersistentVolumeSources", "getPersistentVolumeMounts"}

\* What a volume function returned: its volumes, claims, pod volumes or mounts.
Produced ==
    CASE built.fn = "getPersistentVolumes" -> built.res.pvs
      [] built.fn = "getPersistentVolumeClaims" -> built.res.claims
      [] built.fn = "getPersistentVolumeSources" -> built.res.volumes
      [] built.fn = "getPersistentVolumeMounts" -> built.res

\* The job's InvocationID, and the others of the model.
SameID == [NoJob EXCEPT !.InvocationID = job.InvocationID]
OtherIDs == {[NoJob EXCEPT !.InvocationID = id] : id \in ExternalIDs \ {job.InvocationID}}

\* The three names derived from a job.
NamesOf(j) ==
    {getCSIDataVolumeName(j), getCSIDataVolumeClaimName(j), getCSIDataVolumeHandle(j)}

OnlyAdds(before, after) ==
    /\ \A k \in DOMAIN before : Has(after, k) /\ after[k] = before[k]
    /\ (DOMAIN after) \ (DOMAIN before) \subseteq DerivedLabels
    /\ Has(after, "subdomain") /\ ~Has(before, "subdomain") =>
           Has(before, "external-id") /\ Has(before, "user-id")

\* The labels the three populating steps compute for an item, given the
\* outcomes of the two Apps lookups.
Populated(labels, ipOK, idOK) ==
    populateAnalysisID(populateLoginIP(populateSubdomain(labels), ipOK).labels, idOK).labels

\* C22: the populating steps only add keys.  For the object the sweep is about
\* to relabel and every outcome of the two Apps lookups, the computed labels
\* keep every listed key with its value and add only subdomain, login-ip and
\* analysis-id, subdomain only when external-id and user-id are both there; and
\* throughout a sweep every object of the cluster has every label it had when
\* the sweep began, the same way.
C22_PopulateOnlyAdds ==
    /\ sw.pc = "items" /\ Len(sw.items) > 0 =>
           \A ipOK \in BOOLEAN, idOK \in BOOLEAN :
               OnlyAdds(Head(sw.items).labels, Populated(Head(sw.items).labels, ipOK, idOK))
    /\ sw.pc # "idle" => \A o \in ObjIds : OnlyAdds(sw.pre[o].labels, cluster[o].labels)

\* A sweep is over in which deployment dep-e1, listed with external-id and
\* user-id only, gained subdomain and login-ip while its analysis-id lookup
\* failed, and config map cm-e1 gained the three derived labels.
C22_Witness ==
    /\ sw.pc = "done"
    /\ "dep-e1" \in sw.idFailed
    /\ ~Has(sw.pre["dep-e1"].labels, "subdomain")
    /\ DOMAIN cluster["dep-e1"].labels =
           (DOMAIN sw.pre["dep-e1"].labels) \cup {"subdomain", "login-ip"}
    /\ DOMAIN sw.pre["cm-e1"].labels \cap DerivedLabels = {}
    /\ DerivedLabels \subseteq DOMAIN cluster["cm-e1"].labels

(***************************************************************************)
(* What a description discloses.                                           *)
(***************************************************************************)
\* The analyses Permissions allowed the requesting user in this request.
AllowedAnalyses ==
    {resp.permsCalls[i].analysisID : i \in
        {n \in 1..Len(resp.permsCalls) : /\ resp.permsCalls[n].verdict = "allow"
                                         /\ resp.permsCalls[n].user = resp.user}}

\* C23: every object in a 200 response of DescribeAnalysisHandler belongs to an
\* analysis that Permissions allowed the requesting user in that request, also
\* when deployments of different analyses carry the requested subdomain.
C23_DescriptionWithinAllowedAnalyses ==
    (resp.handler = "DescribeAnalysisHandler" /\ resp.status = 200) =>
        \A k \in DOMAIN resp.listing : \A i \in 1..Len(resp.listing[k]) :
            AnalysisID(resp.listing[k][i].externalID) \in AllowedAnalyses

====
